---- MODULE Spec2Model ----
(***************************************************************************)
(* Dominoes score tracker (src/unnamed/part_000, the React component App). *)
(*                                                                         *)
(* The persisted aggregate `state` (PersistedState) is driven by the       *)
(* handlers saveOnboarding, saveSettings, addRound, undoRound,             *)
(* resetCurrentGame and importData; every change of `state` is followed by *)
(* the persist effect, which writes JSON.stringify(state) to the           *)
(* localStorage slot STORAGE_KEY.  Neither the read of the slot at         *)
(* construction nor the write of the effect is inside a try block: when    *)
(* localStorage throws, the error reaches React, which unmounts the App    *)
(* (`crashed`).                                                            *)
(*                                                                         *)
(* importData awaits the text of the chosen file.  What follows the await  *)
(* runs in a later task, outside any event handler, whatever the page      *)
(* shows by then; its setState and setError wait for a render that React   *)
(* schedules in a task after that (`queued`).  An event delivered in       *)
(* between runs the handler of the render on screen, and React renders     *)
(* that handler's updates at once, without the ones that wait.             *)
(*                                                                         *)
(* The persist effect of a render that an event handler caused runs at the *)
(* end of that render.  The persist effect of the first render and of a    *)
(* render of updates that waited runs later (`effect`): by a callback that *)
(* React schedules, or before the next render.                             *)
(*                                                                         *)
(* Spec is the program over a storage that works: the handlers of the two  *)
(* screens and importData, on a small set of form contents and files.      *)
(* SpecHandlers is the handlers alone, on every form content;              *)
(* SpecNoImport is SpecHandlers from the default state.  SpecForeignBackup *)
(* imports and loads documents that the program itself never wrote,        *)
(* SpecHugeScores enters scores of 1e308, SpecStorageFails adds to Spec    *)
(* the steps in which localStorage throws.                                 *)
(*                                                                         *)
(* Texts (form fields, team names) are sequences of one-character strings, *)
(* so that trim, toLowerCase and Number are computed character by          *)
(* character.  The form fields (teamAInput, teamBInput, doubleInput,       *)
(* roundA, roundB) are set by their onChange handlers to any text at any   *)
(* time; a handler that reads them therefore takes their content as an     *)
(* input.  winnerBanner and settingsOpen are display state that no handler *)
(* reads; they are left out.                                               *)
(***************************************************************************)
EXTENDS Integers, Sequences, FiniteSets

VARIABLES
    state,          \* useState<PersistedState>: the persisted aggregate
    error,          \* useState(''): the inline error message
    storage,        \* localStorage: the slot of each key
    crashed,        \* an error escaped a render or an effect: the App is unmounted
    pending,        \* importData calls waiting on file.text(): how many
    queued,         \* updates made outside an event handler, not rendered yet
    effect,         \* the persist effect of the last render has not run yet
    lastOp,         \* history: the handler that ran last
    overlapped      \* history: a handler ran while the import started last read its file

vars == <<state, error, storage, crashed, pending, queued, effect, lastOp, overlapped>>

-----------------------------------------------------------------------------
(* Bounds of the model *)

MaxRounds == 2      \* addRound is cut off at a ledger of this length
MaxWins == 1        \* addRound is cut off where it would take a win counter past this
MaxPending == 1     \* imports whose file is being read at the same time

(* Program constants *)

TARGET_SCORE == 150

\* const STORAGE_KEY
STORAGE_KEY == "dominoes-score-tracker-v3"

\* README, "Persistencia": the key the documentation names
README_STORAGE_KEY == "dominoes-score-tracker-v2"

\* the keys of localStorage that are told apart
StorageKeys == {STORAGE_KEY, README_STORAGE_KEY}

-----------------------------------------------------------------------------
(* Texts *)

Digits == <<"0", "1", "2", "3", "4", "5", "6", "7", "8", "9">>

IsDigit(c) == \E i \in 1..10 : Digits[i] = c

DigitVal(c) == (CHOOSE i \in 1..10 : Digits[i] = c) - 1

IsSpace(c) == c = " "

RECURSIVE TrimStart(_)
TrimStart(s) ==
    IF s # <<>> /\ IsSpace(Head(s)) THEN TrimStart(Tail(s)) ELSE s

RECURSIVE TrimEnd(_)
TrimEnd(s) ==
    IF s # <<>> /\ IsSpace(s[Len(s)])
    THEN TrimEnd(SubSeq(s, 1, Len(s) - 1))
    ELSE s

\* String.prototype.trim
Trim(s) == TrimEnd(TrimStart(s))

LowerChar(c) ==
    CASE c = "A" -> "a"
      [] c = "O" -> "o"
      [] c = "R" -> "r"
      [] c = "J" -> "j"
      [] c = "S" -> "s"
      [] c = "Z" -> "z"
      [] c = "U" -> "u"
      [] c = "L" -> "l"
      [] OTHER -> c

\* slip: the comparison forgets to fold case
ToLowerCase_Identity(s) == s

\* String.prototype.toLowerCase
ToLowerCase(s) == [i \in 1..Len(s) |-> LowerChar(s[i])]

-----------------------------------------------------------------------------
(* Numbers.  The numbers of the program are doubles; here they are          *)
(* integers.  Two doubles that no integer of the model reaches are kept as  *)
(* integers of their own, above every other number: the double 1e308, the   *)
(* largest power of ten a double holds, as E308, and Infinity, which every  *)
(* sum and product beyond Number.MAX_VALUE is, as twice E308.  Their order  *)
(* is the order of the doubles.  The value null, which JSON.parse puts      *)
(* where JSON.stringify wrote a number that is not finite, is kept as an    *)
(* integer below every number of the model.                                 *)

E308 == 500000000
Infinity == 2 * E308
Null == 0 - 1

\* the double an exact sum or product is rounded to: next to 1e308 what the
\* integers of the model add is lost, and twice 1e308 is beyond
\* Number.MAX_VALUE
ToDouble ==
    [exact \in Nat |->
        IF exact >= Infinity THEN Infinity
        ELSE IF exact >= E308 THEN E308
        ELSE exact]

\* x + y
Plus(x, y) == ToDouble[x + y]

\* x * 2
Twice(x) == ToDouble[x * 2]

\* the number a value is read as by += : null counts as 0
ToNumber(x) == IF x = Null THEN 0 ELSE x

(* Number(text): a JavaScript number read from a decimal literal, kept as   *)
(* the exact fraction num/den, or NaN.                                      *)

NaN == [nan |-> TRUE, num |-> 0, den |-> 1]

RECURSIVE DigitsVal(_)
DigitsVal(s) ==
    IF s = <<>> THEN 0
    ELSE 10 * DigitsVal(SubSeq(s, 1, Len(s) - 1)) + DigitVal(s[Len(s)])

RECURSIVE Pow10(_)
Pow10(n) == IF n = 0 THEN 1 ELSE 10 * Pow10(n - 1)

AllDigits(s) == \A i \in 1..Len(s) : IsDigit(s[i])

\* position of the first "." of s, or Len(s) + 1
DotPos(s) ==
    IF \E i \in 1..Len(s) : s[i] = "."
    THEN CHOOSE i \in 1..Len(s) : s[i] = "." /\ \A j \in 1..(i - 1) : s[j] # "."
    ELSE Len(s) + 1

\* StrUnsignedDecimalLiteral without exponent: digits, digits.digits, digits., .digits
UnsignedLiteral(s) ==
    LET p == DotPos(s)
        ip == SubSeq(s, 1, p - 1)
        fp == SubSeq(s, p + 1, Len(s))
    IN  IF AllDigits(ip) /\ AllDigits(fp) /\ Len(ip) + Len(fp) >= 1
        THEN [nan |-> FALSE, num |-> DigitsVal(ip \o fp), den |-> Pow10(Len(fp))]
        ELSE NaN

\* position of the first "e" or "E" of s, or Len(s) + 1
ExpPos(s) ==
    IF \E i \in 1..Len(s) : s[i] \in {"e", "E"}
    THEN CHOOSE i \in 1..Len(s) :
             s[i] \in {"e", "E"} /\ \A j \in 1..(i - 1) : s[j] \notin {"e", "E"}
    ELSE Len(s) + 1

\* m times 10^x, x >= 0.  Of the values beyond the integers of the model,
\* 10^308 is the double 1e308 and 2 * 10^308 and above round to Infinity.
TimesPow10(m, x) ==
    IF m.num = 0 THEN m
    ELSE IF x = 308 /\ m.num = m.den THEN [nan |-> FALSE, num |-> E308, den |-> 1]
    ELSE IF x >= 308 /\ m.num >= 2 * m.den THEN [nan |-> FALSE, num |-> Infinity, den |-> 1]
    ELSE IF x > 308 /\ m.num >= m.den THEN [nan |-> FALSE, num |-> Infinity, den |-> 1]
    ELSE [m EXCEPT !.num = m.num * Pow10(x)]

\* StrUnsignedDecimalLiteral: a literal, or a literal, e and an exponent
\* (digits, +digits, -digits)
UnsignedDecimalLiteral(s) ==
    LET p == ExpPos(s)
        m == UnsignedLiteral(SubSeq(s, 1, p - 1))
        e == SubSeq(s, p + 1, Len(s))
        x == IF e # <<>> /\ Head(e) \in {"+", "-"} THEN Tail(e) ELSE e
    IN  IF p > Len(s) THEN UnsignedLiteral(s)
        ELSE IF m.nan \/ x = <<>> \/ ~AllDigits(x) THEN NaN
        ELSE IF Head(e) = "-" THEN [m EXCEPT !.den = m.den * Pow10(DigitsVal(x))]
        ELSE TimesPow10(m, DigitsVal(x))

Negate(v) == IF v.nan THEN v ELSE [v EXCEPT !.num = 0 - v.num]

\* Number(s) for a string s
Number(s) ==
    LET t == Trim(s)
    IN  IF t = <<>> THEN [nan |-> FALSE, num |-> 0, den |-> 1]
        ELSE IF Head(t) = "-" THEN Negate(UnsignedDecimalLiteral(Tail(t)))
        ELSE IF Head(t) = "+" THEN UnsignedDecimalLiteral(Tail(t))
        ELSE UnsignedDecimalLiteral(t)

\* Number.isInteger: false for NaN and for Infinity
IsInteger(v) == ~v.nan /\ v.num # Infinity /\ v.num % v.den = 0

\* v < 0 (false for NaN)
IsNegative(v) == ~v.nan /\ v.num < 0

\* the integer an integral v stands for
IntOf(v) == v.num \div v.den

-----------------------------------------------------------------------------
(* The persisted aggregate *)

\* type Round
MkRound(id, rawA, rawB, appliedA, appliedB, isDouble) ==
    [id |-> id, rawA |-> rawA, rawB |-> rawB,
     appliedA |-> appliedA, appliedB |-> appliedB, isDouble |-> isDouble]

\* const defaultState
defaultState ==
    [onboardingDone |-> FALSE,
     teamAName |-> <<>>,
     teamBName |-> <<>>,
     doubleFirstHand |-> FALSE,
     rounds |-> <<>>,
     winsA |-> 0,
     winsB |-> 0]

\* slip: the reduce adds the raw points instead of the applied ones
RECURSIVE Totals_Raw(_)
Totals_Raw(rounds) ==
    IF rounds = <<>> THEN [a |-> 0, b |-> 0]
    ELSE LET acc == Totals_Raw(SubSeq(rounds, 1, Len(rounds) - 1))
             round == rounds[Len(rounds)]
         IN  [a |-> Plus(acc.a, ToNumber(round.rawA)),
              b |-> Plus(acc.b, ToNumber(round.rawB))]

\* rounds.reduce((acc, round) => { acc.a += round.appliedA; acc.b += round.appliedB })
RECURSIVE Totals(_)
Totals(rounds) ==
    IF rounds = <<>> THEN [a |-> 0, b |-> 0]
    ELSE LET acc == Totals(SubSeq(rounds, 1, Len(rounds) - 1))
             round == rounds[Len(rounds)]
         IN  [a |-> Plus(acc.a, ToNumber(round.appliedA)),
              b |-> Plus(acc.b, ToNumber(round.appliedB))]

\* the totals the scoreboard displays: useMemo over state.rounds
totals == Totals(state.rounds)

-----------------------------------------------------------------------------
(* JSON documents.  A JSON value is a tagged record; a document (a text) is *)
(* either unparsable or the text of one JSON value.                         *)

JNull == [t |-> "null"]
JBool(b) == [t |-> "bool", b |-> b]
JNum(n) == [t |-> "num", n |-> n]
JStr(s) == [t |-> "str", s |-> s]
JArr(a) == [t |-> "arr", a |-> a]
JObj(o) == [t |-> "obj", o |-> o]

Unparsable == [ok |-> FALSE]
TextOf(j) == [ok |-> TRUE, json |-> j]

\* localStorage.getItem answers null for a slot never written
Absent == [present |-> FALSE]
Stored(doc) == [present |-> TRUE, doc |-> doc]

\* JSON.stringify of a number, or of null in the place of a number: a number
\* that is not finite is written as null
NumberToJSON(x) == IF x = Infinity \/ x = Null THEN JNull ELSE JNum(x)

\* JSON.stringify writes the properties an object has: a round that lacks
\* one is written without it
RoundToJSON(r) ==
    JObj([k \in DOMAIN r |-> IF k = "isDouble" THEN JBool(r[k]) ELSE NumberToJSON(r[k])])

StateToJSON(s) ==
    JObj([onboardingDone |-> JBool(s.onboardingDone),
          teamAName |-> JStr(s.teamAName),
          teamBName |-> JStr(s.teamBName),
          doubleFirstHand |-> JBool(s.doubleFirstHand),
          rounds |-> JArr([i \in 1..Len(s.rounds) |-> RoundToJSON(s.rounds[i])]),
          winsA |-> NumberToJSON(s.winsA),
          winsB |-> NumberToJSON(s.winsB)])

\* JSON.stringify(state)
Stringify(s) == TextOf(StateToJSON(s))

HasType(o, key, type) == key \in DOMAIN o /\ o[key].t = type

\* function isValidState(value)
isValidState(value) ==
    /\ value.t = "obj"
    /\ HasType(value.o, "onboardingDone", "bool")
    /\ HasType(value.o, "teamAName", "str")
    /\ HasType(value.o, "teamBName", "str")
    /\ HasType(value.o, "doubleFirstHand", "bool")
    /\ HasType(value.o, "rounds", "arr")
    /\ HasType(value.o, "winsA", "num")
    /\ HasType(value.o, "winsB", "num")

\* an element of the parsed rounds array, used as a Round as it is: it has
\* the properties the document gave it, no more
RoundOfJSON(j) ==
    [k \in DOMAIN j.o |->
        IF j.o[k].t = "bool" THEN j.o[k].b
        ELSE IF j.o[k].t = "null" THEN Null
        ELSE j.o[k].n]

\* a parsed value that passed isValidState, used as the PersistedState
StateOfJSON(value) ==
    [onboardingDone |-> value.o.onboardingDone.b,
     teamAName |-> value.o.teamAName.s,
     teamBName |-> value.o.teamBName.s,
     doubleFirstHand |-> value.o.doubleFirstHand.b,
     rounds |-> [i \in 1..Len(value.o.rounds.a) |-> RoundOfJSON(value.o.rounds.a[i])],
     winsA |-> value.o.winsA.n,
     winsB |-> value.o.winsB.n]

\* slip: the slot is read under the key the README names
loadInitialState_ReadsReadmeKey(localStorage) ==
    LET raw == localStorage[README_STORAGE_KEY]
    IN  IF ~raw.present THEN defaultState
        ELSE IF ~raw.doc.ok THEN defaultState
        ELSE IF isValidState(raw.doc.json) THEN StateOfJSON(raw.doc.json)
        ELSE defaultState

\* function loadInitialState(), on a localStorage whose getItem answers
loadInitialState(localStorage) ==
    LET raw == localStorage[STORAGE_KEY]
    IN  IF ~raw.present THEN defaultState
        ELSE IF ~raw.doc.ok THEN defaultState
        ELSE IF isValidState(raw.doc.json) THEN StateOfJSON(raw.doc.json)
        ELSE defaultState

\* useEffect(() => localStorage.setItem(STORAGE_KEY, JSON.stringify(state)), [state]),
\* on a localStorage whose setItem answers
Persist(localStorage, s) ==
    [localStorage EXCEPT ![STORAGE_KEY] = Stored(Stringify(s))]

-----------------------------------------------------------------------------
(* Messages *)

ErrNamesMissing == "Escribe el nombre de ambos equipos."
ErrNamesEqual == "Los nombres de los equipos deben ser distintos."
ErrNotInteger == "Ingresa números enteros para ambos puntajes."
ErrBothZero == "Al menos un equipo debe tener puntos."
ErrBackupFormat == "El formato del respaldo no es válido."
ErrBackupRead == "No se pudo leer el archivo de respaldo."
NoError == ""

-----------------------------------------------------------------------------
(* Each handler is a function of the state it finds and of its inputs; its  *)
(* outcome is the state and the error message it leaves, and whether it     *)
(* called setState.                                                         *)

\* the handler returned without calling setState
Kept(s, err) == [state |-> s, error |-> err, set |-> FALSE]

\* the handler called setState
Set(s, err) == [state |-> s, error |-> err, set |-> TRUE]

-----------------------------------------------------------------------------
(* saveOnboarding and saveSettings *)

\* the check of the two names both handlers make: the message, or NoError
NamesError(teamAInput, teamBInput) ==
    LET a == Trim(teamAInput)
        b == Trim(teamBInput)
    IN  IF a = <<>> \/ b = <<>> THEN ErrNamesMissing
        ELSE IF ToLowerCase(a) = ToLowerCase(b) THEN ErrNamesEqual
        ELSE NoError

\* slip: finishing the onboarding starts from an empty ledger
OnboardingUpdate_ClearsLedger(prev, teamAInput, teamBInput, doubleInput) ==
    [prev EXCEPT !.onboardingDone = TRUE,
                 !.teamAName = Trim(teamAInput),
                 !.teamBName = Trim(teamBInput),
                 !.doubleFirstHand = doubleInput,
                 !.rounds = <<>>]

\* the updater of saveOnboarding
OnboardingUpdate(prev, teamAInput, teamBInput, doubleInput) ==
    [prev EXCEPT !.onboardingDone = TRUE,
                 !.teamAName = Trim(teamAInput),
                 !.teamBName = Trim(teamBInput),
                 !.doubleFirstHand = doubleInput,
                 !.rounds = IF Len(prev.rounds) > 0 THEN prev.rounds ELSE <<>>]

\* slip: saving the settings starts a new match
SettingsUpdate_NewMatch(prev, teamAInput, teamBInput, doubleInput) ==
    [prev EXCEPT !.teamAName = Trim(teamAInput),
                 !.teamBName = Trim(teamBInput),
                 !.doubleFirstHand = doubleInput,
                 !.rounds = <<>>]

\* the updater of saveSettings
SettingsUpdate(prev, teamAInput, teamBInput, doubleInput) ==
    [prev EXCEPT !.teamAName = Trim(teamAInput),
                 !.teamBName = Trim(teamBInput),
                 !.doubleFirstHand = doubleInput]

\* function saveOnboarding
saveOnboarding(s, err, teamAInput, teamBInput, doubleInput) ==
    IF NamesError(teamAInput, teamBInput) # NoError
    THEN Kept(s, NamesError(teamAInput, teamBInput))
    ELSE Set(OnboardingUpdate(s, teamAInput, teamBInput, doubleInput), NoError)

\* function saveSettings
saveSettings(s, err, teamAInput, teamBInput, doubleInput) ==
    IF NamesError(teamAInput, teamBInput) # NoError
    THEN Kept(s, NamesError(teamAInput, teamBInput))
    ELSE Set(SettingsUpdate(s, teamAInput, teamBInput, doubleInput), NoError)

-----------------------------------------------------------------------------
(* addRound *)

\* The values a score field delivers to a submit.  The fields are
\* <input type="number" min={0}> in a form that validates: a text that is no
\* number is delivered as the empty text, and a negative or fractional
\* value holds the submit back.
RoundTexts == {<<>>, <<"0">>, <<"7", "5">>}

\* texts only a direct call of addRound can be given
DirectCallTexts == {<<"-", "5">>, <<"7", ".", "5">>, <<"x">>}

\* a score field also takes a number written with an exponent
HugeRoundTexts == {<<"0">>, <<"1", "e", "3", "0", "8">>}

\* Number(text) for each of these texts, computed once
NumberOfText ==
    [text \in RoundTexts \cup DirectCallTexts \cup HugeRoundTexts |-> Number(text)]

\* rawA = roundA === '' ? 0 : Number(roundA)
RawOf(text) ==
    IF text = <<>> THEN [nan |-> FALSE, num |-> 0, den |-> 1] ELSE NumberOfText[text]

\* slip: the check that both values are zero is missing
RoundError_NoZeroCheck(roundA, roundB) ==
    LET rawA == RawOf(roundA)
        rawB == RawOf(roundB)
    IN  IF ~IsInteger(rawA) \/ ~IsInteger(rawB) \/ IsNegative(rawA) \/ IsNegative(rawB)
        THEN ErrNotInteger
        ELSE NoError

\* the two checks of the round input: the message, or NoError
RoundError(roundA, roundB) ==
    LET rawA == RawOf(roundA)
        rawB == RawOf(roundB)
    IN  IF ~IsInteger(rawA) \/ ~IsInteger(rawB) \/ IsNegative(rawA) \/ IsNegative(rawB)
        THEN ErrNotInteger
        ELSE IF IntOf(rawA) = 0 /\ IntOf(rawB) = 0 THEN ErrBothZero
        ELSE NoError

\* slip: the rule doubles every round, not only the first of a match
IsDouble_FlagOnly(s) == s.doubleFirstHand

\* const isDouble = state.doubleFirstHand && state.rounds.length === 0
IsDouble(s) == s.doubleFirstHand /\ Len(s.rounds) = 0

\* slip: the doubled first hand doubles the points of team A only
NextRound_DoublesOneSide(s, now, rawA, rawB) ==
    MkRound(now, rawA, rawB,
            IF IsDouble(s) THEN Twice(rawA) ELSE rawA,
            rawB,
            IsDouble(s))

\* const nextRound
NextRound(s, now, rawA, rawB) ==
    MkRound(now, rawA, rawB,
            IF IsDouble(s) THEN Twice(rawA) ELSE rawA,
            IF IsDouble(s) THEN Twice(rawB) ELSE rawB,
            IsDouble(s))

\* slip: a tie at or above the target counts as a win of team A
AWon_TieWins(t) == t.a >= TARGET_SCORE /\ t.a >= t.b

\* slip: team A wins only above the target, a total at the target is committed
AWon_AboveTargetOnly(t) == t.a > TARGET_SCORE /\ t.a > t.b

\* const aWon, on nextTotals
AWon(t) == t.a >= TARGET_SCORE /\ t.a > t.b

\* slip: team B wins a tie at or above the target
BWon_TieWins(t) == t.b >= TARGET_SCORE /\ t.b >= t.a

\* const bWon, on nextTotals
BWon(t) == t.b >= TARGET_SCORE /\ t.b > t.a

\* slip: the win is counted and the ledger of the match is kept
WinUpdate_KeepsLedger(prev, aWon, bWon) ==
    [prev EXCEPT !.winsA = IF aWon THEN prev.winsA + 1 ELSE prev.winsA,
                 !.winsB = IF bWon THEN prev.winsB + 1 ELSE prev.winsB]

\* the updater of the winning branch
WinUpdate(prev, aWon, bWon) ==
    [prev EXCEPT !.winsA = IF aWon THEN prev.winsA + 1 ELSE prev.winsA,
                 !.winsB = IF bWon THEN prev.winsB + 1 ELSE prev.winsB,
                 !.rounds = <<>>]

\* the updater of the other branch
CommitUpdate(prev, nextRounds) == [prev EXCEPT !.rounds = nextRounds]

\* lines 239-274 of addRound: the round, the ledger and the win are computed
\* from `state` of the render the handler belongs to (closure); the updater
\* handed to setState is applied to prev
AddRoundUpdate(closure, prev, now, rawA, rawB) ==
    LET nextRounds == Append(closure.rounds, NextRound(closure, now, rawA, rawB))
        nextTotals == Totals(nextRounds)
    IN  IF AWon(nextTotals) \/ BWon(nextTotals)
        THEN WinUpdate(prev, AWon(nextTotals), BWon(nextTotals))
        ELSE CommitUpdate(prev, nextRounds)

\* function addRound of the render whose state is closure, its updater
\* applied to prev
addRoundOn(closure, prev, err, roundA, roundB, now) ==
    IF RoundError(roundA, roundB) # NoError
    THEN Kept(prev, RoundError(roundA, roundB))
    ELSE Set(AddRoundUpdate(closure, prev, now,
                            IntOf(RawOf(roundA)), IntOf(RawOf(roundB))), NoError)

\* function addRound when no update is waiting: prev is the rendered state
addRound(s, err, roundA, roundB, now) == addRoundOn(s, s, err, roundA, roundB, now)

-----------------------------------------------------------------------------
(* undoRound, resetCurrentGame *)

\* slip: slice(1) drops the oldest round instead of the newest
SliceButLast_DropsFirst(rounds) ==
    IF Len(rounds) = 0 THEN <<>> ELSE Tail(rounds)

\* rounds.slice(0, -1)
SliceButLast(rounds) ==
    IF Len(rounds) = 0 THEN <<>> ELSE SubSeq(rounds, 1, Len(rounds) - 1)

\* slip: an undo on the empty ledger takes back a win of team A
undoRound_TakesBackWin(s, err) ==
    IF s.rounds = <<>> /\ s.winsA > 0
    THEN Set([s EXCEPT !.winsA = s.winsA - 1], err)
    ELSE Set([s EXCEPT !.rounds = SubSeq(s.rounds, 1, Len(s.rounds) - 1)], err)

\* function undoRound
undoRound(s, err) == Set([s EXCEPT !.rounds = SliceButLast(s.rounds)], err)

\* slip: the reset clears the win counters as well
resetCurrentGame_ClearsWins(s, err) ==
    Set([s EXCEPT !.rounds = <<>>, !.winsA = 0, !.winsB = 0], err)

\* function resetCurrentGame
resetCurrentGame(s, err) == Set([s EXCEPT !.rounds = <<>>], err)

-----------------------------------------------------------------------------
(* exportData, importData *)

\* function exportData: the text put in the downloaded file
exportData(s) == Stringify(s)

\* slip: a document that fails the shape check wipes the state
importData_WipesOnBadFormat(s, err, doc) ==
    IF ~doc.ok THEN Kept(s, ErrBackupRead)
    ELSE IF ~isValidState(doc.json) THEN Set(defaultState, ErrBackupFormat)
    ELSE Set(StateOfJSON(doc.json), NoError)

\* slip: the win counters of the state the import finds are kept
importData_KeepsWins(s, err, doc) ==
    IF ~doc.ok THEN Kept(s, ErrBackupRead)
    ELSE IF ~isValidState(doc.json) THEN Kept(s, ErrBackupFormat)
    ELSE Set([StateOfJSON(doc.json) EXCEPT !.winsA = s.winsA, !.winsB = s.winsB], NoError)

\* slip: the team names of the state the import finds are kept
importData_KeepsNames(s, err, doc) ==
    IF ~doc.ok THEN Kept(s, ErrBackupRead)
    ELSE IF ~isValidState(doc.json) THEN Kept(s, ErrBackupFormat)
    ELSE Set([StateOfJSON(doc.json) EXCEPT !.teamAName = s.teamAName,
                                           !.teamBName = s.teamBName], NoError)

\* function importData, on the text of the chosen file
importData(s, err, doc) ==
    IF ~doc.ok THEN Kept(s, ErrBackupRead)
    ELSE IF ~isValidState(doc.json) THEN Kept(s, ErrBackupFormat)
    ELSE Set(StateOfJSON(doc.json), NoError)

-----------------------------------------------------------------------------
(* Inputs *)

Rojos == <<"R", "o", "j", "o", "s">>
rojos == <<"r", "o", "j", "o", "s">>
Azules == <<"A", "z", "u", "l", "e", "s">>

NameTexts == {<<>>, <<" ", " ">>, Rojos, rojos, <<" ">> \o Azules \o <<" ">>}

\* the answers of Date.now()
Times == {1, 2}

\* a backup taken in the middle of a match
BackupMidMatch ==
    [onboardingDone |-> TRUE, teamAName |-> Rojos, teamBName |-> Azules,
     doubleFirstHand |-> TRUE,
     rounds |-> <<MkRound(1, 75, 75, 150, 150, TRUE)>>,
     winsA |-> 1, winsB |-> 0]

\* a backup whose onboarding flag is off and whose ledger is not empty
BackupNoOnboarding ==
    [onboardingDone |-> FALSE, teamAName |-> <<>>, teamBName |-> <<>>,
     doubleFirstHand |-> FALSE,
     rounds |-> <<MkRound(2, 0, 75, 0, 75, FALSE)>>,
     winsA |-> 0, winsB |-> 1]

\* a backup taken right after a recorded win: the ledger is empty
BackupNewMatch ==
    [onboardingDone |-> TRUE, teamAName |-> Azules, teamBName |-> Rojos,
     doubleFirstHand |-> FALSE, rounds |-> <<>>, winsA |-> 0, winsB |-> 1]

\* a document with one required field missing
DocMissingField ==
    TextOf(JObj([onboardingDone |-> JBool(TRUE), teamAName |-> JStr(Rojos),
                 teamBName |-> JStr(Azules), doubleFirstHand |-> JBool(FALSE),
                 rounds |-> JArr(<<>>), winsA |-> JNum(0)]))

\* a document with one field of the wrong type
DocWrongType ==
    TextOf(JObj([onboardingDone |-> JBool(TRUE), teamAName |-> JStr(Rojos),
                 teamBName |-> JStr(Azules), doubleFirstHand |-> JBool(FALSE),
                 rounds |-> JArr(<<>>), winsA |-> JStr(<<"1">>), winsB |-> JNum(0)]))

\* the files chosen in Spec: one that fails the shape check and two
\* backups
AsyncDocs == {DocWrongType, Stringify(BackupMidMatch), Stringify(BackupNoOnboarding)}

\* the form contents tried next to an import: team A keeps its name, team B
\* takes the same name in lower case or another one; team A scores or does
\* not, team B does not
AsyncTeamATexts == {Rojos}
AsyncTeamBTexts == {rojos, <<" ">> \o Azules \o <<" ">>}
AsyncRoundATexts == {<<"0">>, <<"7", "5">>}
AsyncRoundBTexts == {<<"0">>}
AsyncTimes == {1}

\* what the slot STORAGE_KEY holds when the page is opened
InitialSlots ==
    {Absent, Stored(Unparsable), Stored(DocWrongType), Stored(Stringify(BackupMidMatch)),
     Stored(Stringify(BackupNoOnboarding))}

\* a localStorage in which only STORAGE_KEY may have been written
StorageWith(slot) == [k \in StorageKeys |-> IF k = STORAGE_KEY THEN slot ELSE Absent]

InitialStorages == {StorageWith(slot) : slot \in InitialSlots}

\* a document that the program never wrote: the one round of its ledger has
\* no isDouble property
DocRoundLacksField ==
    TextOf(JObj([onboardingDone |-> JBool(TRUE), teamAName |-> JStr(Rojos),
                 teamBName |-> JStr(Azules), doubleFirstHand |-> JBool(FALSE),
                 rounds |-> JArr(<<JObj([id |-> JNum(3), rawA |-> JNum(75),
                                         rawB |-> JNum(0), appliedA |-> JNum(75),
                                         appliedB |-> JNum(0)])>>),
                 winsA |-> JNum(0), winsB |-> JNum(0)]))

\* a document that the program never wrote: onboarding is done and the two
\* names differ by case only
DocSameNames ==
    TextOf(JObj([onboardingDone |-> JBool(TRUE), teamAName |-> JStr(Rojos),
                 teamBName |-> JStr(rojos), doubleFirstHand |-> JBool(FALSE),
                 rounds |-> JArr(<<>>), winsA |-> JNum(0), winsB |-> JNum(0)]))

ForeignDocs == {DocRoundLacksField, DocSameNames}

\* the page is opened on a slot that something else wrote
ForeignStorages == {StorageWith(Stored(doc)) : doc \in ForeignDocs}

-----------------------------------------------------------------------------
(* The state machine *)

\* no update is waiting for a render
NoQueue ==
    [any |-> FALSE, state |-> defaultState, error |-> NoError, set |-> FALSE,
     rebased |-> FALSE]

\* updates made outside an event handler wait for the next render: the state
\* and the message they lead to, whether setState is among them, and whether
\* the setState of a handler is kept behind them
Queue(s, err, set, rebased) ==
    [any |-> TRUE, state |-> s, error |-> err, set |-> set, rebased |-> rebased]

\* the state and the message an update made now is applied to
QState == IF queued.any THEN queued.state ELSE state
QError == IF queued.any THEN queued.error ELSE error

\* The updater of a handler is kept behind a setState that waits: every
\* render applies it again to the rendered state and gives `state` a new
\* identity, so the persist effect (deps [state]) runs after every render.
Rebased == queued.any /\ queued.rebased

\* An event handler runs and React renders its updates at once: out, the
\* handler's outcome on the rendered state, becomes the state and the
\* message. A persist effect that still waits runs before that render, and
\* the persist effect of that render runs at its end when `state` has a new
\* identity. The updates that wait are not part of that render; the
\* handler's updates stay queued behind them, so that the next render leads
\* to outQ, the handler's outcome on what waits.
Run(op, out, outQ) ==
    /\ ~crashed
    /\ lastOp' = op
    /\ state' = out.state
    /\ error' = out.error
    /\ storage' = IF out.set \/ effect \/ Rebased
                  THEN Persist(storage, out.state)
                  ELSE storage
    /\ effect' = FALSE
    /\ queued' = IF queued.any
                 THEN Queue(outQ.state, outQ.error, queued.set,
                            queued.rebased \/ (queued.set /\ out.set))
                 ELSE NoQueue
    /\ crashed' = FALSE
    /\ pending' = pending
    /\ overlapped' = (overlapped \/ pending > 0)

\* useState(() => loadInitialState()): the first render has committed and its
\* persist effect waits for the callback React schedules
Mount(localStorage) ==
    /\ state = loadInitialState(localStorage)
    /\ error = NoError
    /\ storage = localStorage
    /\ crashed = FALSE
    /\ pending = 0
    /\ queued = NoQueue
    /\ effect = TRUE
    /\ lastOp = "init"
    /\ overlapped = FALSE

Init == \E localStorage \in InitialStorages : Mount(localStorage)

\* the onboarding screen is the only one rendered until onboardingDone
SaveOnboarding(teamAInput, teamBInput, doubleInput) ==
    /\ ~state.onboardingDone
    /\ Run("saveOnboarding",
           saveOnboarding(state, error, teamAInput, teamBInput, doubleInput),
           saveOnboarding(QState, QError, teamAInput, teamBInput, doubleInput))

SaveSettings(teamAInput, teamBInput, doubleInput) ==
    /\ state.onboardingDone
    /\ Run("saveSettings",
           saveSettings(state, error, teamAInput, teamBInput, doubleInput),
           saveSettings(QState, QError, teamAInput, teamBInput, doubleInput))

\* the form is submitted on the board; the handler is the one of the render
\* on screen, whose `state` is the rendered state
AddRound(roundA, roundB, now) ==
    /\ state.onboardingDone
    /\ Len(state.rounds) < MaxRounds
    /\ addRound(state, error, roundA, roundB, now).state.winsA <= MaxWins
    /\ addRound(state, error, roundA, roundB, now).state.winsB <= MaxWins
    /\ addRoundOn(state, QState, QError, roundA, roundB, now).state.winsA <= MaxWins
    /\ addRoundOn(state, QState, QError, roundA, roundB, now).state.winsB <= MaxWins
    /\ Run("addRound",
           addRound(state, error, roundA, roundB, now),
           addRoundOn(state, QState, QError, roundA, roundB, now))

\* the button is disabled={state.rounds.length === 0}
UndoRound ==
    /\ state.onboardingDone
    /\ Len(state.rounds) # 0
    /\ Run("undoRound", undoRound(state, error), undoRound(QState, QError))

ResetCurrentGame ==
    /\ state.onboardingDone
    /\ Run("resetCurrentGame",
           resetCurrentGame(state, error), resetCurrentGame(QState, QError))

\* the persist effect that waits runs, by the callback React scheduled or
\* before a render that a change of a form field causes
PersistEffect ==
    /\ effect
    /\ ~crashed
    /\ lastOp' = "persist"
    /\ storage' = Persist(storage, state)
    /\ effect' = FALSE
    /\ UNCHANGED <<state, error, crashed, pending, queued, overlapped>>

\* the handlers of the two screens
NextHandlers ==
    \/ PersistEffect
    \/ \E a \in NameTexts, b \in NameTexts, d \in BOOLEAN : SaveOnboarding(a, b, d)
    \/ \E a \in NameTexts, b \in NameTexts, d \in BOOLEAN : SaveSettings(a, b, d)
    \/ \E a \in RoundTexts, b \in RoundTexts, now \in Times : AddRound(a, b, now)
    \/ UndoRound
    \/ ResetCurrentGame

SpecHandlers == Init /\ [][NextHandlers]_vars

-----------------------------------------------------------------------------
(* The program from the default state, with no import.                      *)

InitNoImport ==
    \E localStorage \in InitialStorages :
        /\ loadInitialState(localStorage) = defaultState
        /\ Mount(localStorage)

SpecNoImport == InitNoImport /\ [][NextHandlers]_vars

-----------------------------------------------------------------------------
(* importData: the file is chosen, file.text() answers in a later task and  *)
(* the rest of the function queues its updates, React renders them in a     *)
(* task after that. Handlers run in between.                                *)

\* the value of the history lastOp when importData has reached its await
ImportAwaits == "importData (await)"

\* importData up to `await file.text()`, from the file input of the board:
\* nothing of the App is read or set
StartImport ==
    /\ state.onboardingDone
    /\ ~crashed
    /\ pending < MaxPending
    /\ pending' = pending + 1
    /\ lastOp' = ImportAwaits
    /\ overlapped' = FALSE
    /\ UNCHANGED <<state, error, storage, crashed, queued, effect>>

\* importData from the answer of file.text() on, whatever screen is shown;
\* doc is the text of the file. Its setState and setError are made outside
\* an event handler: they wait for the next render. On an App that React
\* has unmounted the function runs all the same, and its setState and
\* setError have no component to update. The assignment of the finally
\* block (event.currentTarget.value = '') acts on the file input of the
\* page, after these calls, and on no variable of the App.
CompleteImport(doc) ==
    /\ pending > 0
    /\ LET out == importData(QState, QError, doc)
       IN  queued' = IF crashed
                     THEN queued
                     ELSE Queue(out.state, out.error, queued.set \/ out.set,
                                queued.rebased)
    /\ lastOp' = "importData"
    /\ pending' = pending - 1
    /\ UNCHANGED <<state, error, storage, crashed, effect, overlapped>>

\* React renders the updates that wait, in a task of its own: a persist
\* effect that still waits runs before the render, and the persist effect
\* of this render waits for its callback when the state was set
Render ==
    /\ queued.any
    /\ ~crashed
    /\ lastOp' = "render"
    /\ state' = queued.state
    /\ error' = queued.error
    /\ storage' = IF effect THEN Persist(storage, state) ELSE storage
    /\ effect' = queued.set
    /\ queued' = NoQueue
    /\ UNCHANGED <<crashed, pending, overlapped>>

\* the handlers, on the form contents tried next to a pending import
NextAsyncHandlers ==
    \/ \E a \in AsyncTeamATexts, b \in AsyncTeamBTexts, d \in BOOLEAN :
            SaveOnboarding(a, b, d)
    \/ \E a \in AsyncTeamATexts, b \in AsyncTeamBTexts, d \in BOOLEAN :
            SaveSettings(a, b, d)
    \/ \E a \in AsyncRoundATexts, b \in AsyncRoundBTexts, now \in AsyncTimes :
            AddRound(a, b, now)
    \/ UndoRound
    \/ ResetCurrentGame

Next ==
    \/ PersistEffect
    \/ NextAsyncHandlers
    \/ StartImport
    \/ \E doc \in AsyncDocs : CompleteImport(doc)
    \/ Render

Spec == Init /\ [][Next]_vars

-----------------------------------------------------------------------------
(* Scores near the largest double: a score field takes 1e308, which is an   *)
(* integer for Number.isInteger, and the doubled first hand makes it        *)
(* Infinity.                                                                *)

\* the state after the onboarding of Rojos and Azules with the doubled first
\* hand and a first round of 1e308 to 1e308
BackupInfinite ==
    [onboardingDone |-> TRUE, teamAName |-> Rojos, teamBName |-> Azules,
     doubleFirstHand |-> TRUE,
     rounds |-> <<MkRound(1, E308, E308, Infinity, Infinity, TRUE)>>,
     winsA |-> 0, winsB |-> 0]

\* the file exportData writes in that state
HugeDocs == {exportData(BackupInfinite)}

NextHugeScores ==
    \/ PersistEffect
    \/ \E a \in AsyncTeamATexts, b \in AsyncTeamBTexts, d \in BOOLEAN :
            SaveOnboarding(a, b, d)
    \/ \E a \in AsyncTeamATexts, b \in AsyncTeamBTexts, d \in BOOLEAN :
            SaveSettings(a, b, d)
    \/ \E a \in HugeRoundTexts, b \in HugeRoundTexts, now \in AsyncTimes :
            AddRound(a, b, now)
    \/ UndoRound
    \/ ResetCurrentGame
    \/ StartImport
    \/ \E doc \in HugeDocs : CompleteImport(doc)
    \/ Render

SpecHugeScores == Init /\ [][NextHugeScores]_vars

-----------------------------------------------------------------------------
(* Documents the program did not write: a file edited by hand, a slot      *)
(* written by something else.                                               *)

InitForeignBackup ==
    \E localStorage \in InitialStorages \cup ForeignStorages : Mount(localStorage)

NextForeignBackup ==
    \/ PersistEffect
    \/ NextAsyncHandlers
    \/ StartImport
    \/ \E doc \in ForeignDocs \cup {Unparsable} : CompleteImport(doc)
    \/ Render

SpecForeignBackup == InitForeignBackup /\ [][NextForeignBackup]_vars

-----------------------------------------------------------------------------
(* A localStorage that throws (access denied, quota exceeded).              *)

\* A handler runs and the persist effect throws out of setItem: nothing
\* catches it, React unmounts the App with what waited, the slot keeps what
\* it held. The effect that throws is the one that still waited, run before
\* the handler's updates are rendered, or else the one of the handler's
\* render.
RunStorageFails(op, out) ==
    /\ ~crashed
    /\ out.set \/ effect \/ Rebased
    /\ lastOp' = op
    /\ state' = IF effect THEN state ELSE out.state
    /\ error' = IF effect THEN error ELSE out.error
    /\ storage' = storage
    /\ queued' = NoQueue
    /\ effect' = FALSE
    /\ crashed' = TRUE
    /\ pending' = pending
    /\ overlapped' = (overlapped \/ pending > 0)

\* getItem throws outside the try block of loadInitialState: the first render
\* fails and no state is ever constructed (state stands at defaultState)
MountReadFails(localStorage) ==
    /\ state = defaultState
    /\ error = NoError
    /\ storage = localStorage
    /\ crashed = TRUE
    /\ pending = 0
    /\ queued = NoQueue
    /\ effect = FALSE
    /\ lastOp = "init"
    /\ overlapped = FALSE

InitStorageFails ==
    \E localStorage \in InitialStorages :
        \/ Mount(localStorage)
        \/ MountReadFails(localStorage)

\* the persist effect that waits runs by its callback and setItem throws
PersistEffectStorageFails ==
    /\ effect
    /\ ~crashed
    /\ lastOp' = "persist"
    /\ effect' = FALSE
    /\ queued' = NoQueue
    /\ crashed' = TRUE
    /\ UNCHANGED <<state, error, storage, pending, overlapped>>

\* the value of the history lastOp when a form field was changed
FieldChanged == "change"

\* A form field is changed (onChange sets the field, the App renders) while
\* the updater of a handler is kept behind a setState that waits: the persist
\* effect of that render runs and setItem throws. With a persist effect that
\* still waits the step is PersistEffectStorageFails.
ChangeFieldStorageFails ==
    /\ Rebased
    /\ ~effect
    /\ ~crashed
    /\ lastOp' = FieldChanged
    /\ queued' = NoQueue
    /\ crashed' = TRUE
    /\ UNCHANGED <<state, error, storage, pending, effect, overlapped>>

SaveOnboardingStorageFails(teamAInput, teamBInput, doubleInput) ==
    /\ ~state.onboardingDone
    /\ RunStorageFails("saveOnboarding",
                       saveOnboarding(state, error, teamAInput, teamBInput, doubleInput))

SaveSettingsStorageFails(teamAInput, teamBInput, doubleInput) ==
    /\ state.onboardingDone
    /\ RunStorageFails("saveSettings",
                       saveSettings(state, error, teamAInput, teamBInput, doubleInput))

AddRoundStorageFails(roundA, roundB, now) ==
    /\ state.onboardingDone
    /\ Len(state.rounds) < MaxRounds
    /\ addRound(state, error, roundA, roundB, now).state.winsA <= MaxWins
    /\ addRound(state, error, roundA, roundB, now).state.winsB <= MaxWins
    /\ RunStorageFails("addRound", addRound(state, error, roundA, roundB, now))

UndoRoundStorageFails ==
    /\ state.onboardingDone
    /\ Len(state.rounds) # 0
    /\ RunStorageFails("undoRound", undoRound(state, error))

ResetCurrentGameStorageFails ==
    /\ state.onboardingDone
    /\ RunStorageFails("resetCurrentGame", resetCurrentGame(state, error))

\* the updates that wait are to be rendered: the persist effect that still
\* waits runs before that render and setItem throws
RenderStorageFails ==
    /\ queued.any
    /\ effect
    /\ ~crashed
    /\ lastOp' = "render"
    /\ queued' = NoQueue
    /\ effect' = FALSE
    /\ crashed' = TRUE
    /\ UNCHANGED <<state, error, storage, pending, overlapped>>

NextStorageFails ==
    \/ Next
    \/ \E a \in AsyncTeamATexts, b \in AsyncTeamBTexts, d \in BOOLEAN :
            SaveOnboardingStorageFails(a, b, d)
    \/ \E a \in AsyncTeamATexts, b \in AsyncTeamBTexts, d \in BOOLEAN :
            SaveSettingsStorageFails(a, b, d)
    \/ \E a \in AsyncRoundATexts, b \in AsyncRoundBTexts, now \in AsyncTimes :
            AddRoundStorageFails(a, b, now)
    \/ UndoRoundStorageFails
    \/ ResetCurrentGameStorageFails
    \/ PersistEffectStorageFails
    \/ ChangeFieldStorageFails
    \/ RenderStorageFails

SpecStorageFails == InitStorageFails /\ [][NextStorageFails]_vars

-----------------------------------------------------------------------------
(* What the inputs mean, read off the texts by hand: the reference the      *)
(* properties below are stated against.                                     *)

\* the values of the history lastOp after a handler of the two screens
HandlerOps ==
    {"saveOnboarding", "saveSettings", "addRound", "undoRound", "resetCurrentGame"}

ZeroTexts == {<<>>, <<"0">>}
NegativeTexts == {<<"-", "5">>}
NotIntegerTexts == {<<"7", ".", "5">>, <<"x">>}

\* the points a text of a well-formed score stands for
Points(text) == IF text \in ZeroTexts THEN 0 ELSE 75

WellFormed(text) == text \in ZeroTexts \/ text = <<"7", "5">>

\* a round input addRound must accept
ValidRound(a, b) ==
    WellFormed(a) /\ WellFormed(b) /\ ~(a \in ZeroTexts /\ b \in ZeroTexts)

\* the sum of one side's applied points over a ledger, from its head
RECURSIVE LedgerSum(_, _)
LedgerSum(rounds, side) ==
    IF rounds = <<>> THEN 0
    ELSE (IF side = "a" THEN Head(rounds).appliedA ELSE Head(rounds).appliedB)
         + LedgerSum(Tail(rounds), side)

\* the round a valid input makes in state s
ExpectedRound(s, a, b, now) ==
    LET dbl == s.doubleFirstHand /\ s.rounds = <<>>
    IN  [id |-> now, rawA |-> Points(a), rawB |-> Points(b),
         appliedA |-> IF dbl THEN 2 * Points(a) ELSE Points(a),
         appliedB |-> IF dbl THEN 2 * Points(b) ELSE Points(b),
         isDouble |-> dbl]

\* the last addRound was a win: it passed the checks and left the ledger empty
JustWon == lastOp = "addRound" /\ error = NoError /\ state.rounds = <<>>

-----------------------------------------------------------------------------
(* C1: in every reachable state and for every valid round input, if after   *)
(* appending the round one team's total is at least 150 and strictly above  *)
(* the other's, addRound adds exactly 1 to that team's win counter, leaves  *)
(* the other counter alone and leaves the ledger empty; otherwise it leaves *)
(* both counters alone and the ledger is the old one with the new round     *)
(* appended.                                                                *)
C1_WinOrCommit ==
    \A a \in RoundTexts, b \in RoundTexts, now \in Times :
        ValidRound(a, b) =>
            LET out == addRound(state, error, a, b, now).state
                appended == Append(state.rounds, NextRound(state, now, Points(a), Points(b)))
                ta == LedgerSum(appended, "a")
                tb == LedgerSum(appended, "b")
            IN  IF ta >= 150 /\ ta > tb
                THEN /\ out.winsA = state.winsA + 1
                     /\ out.winsB = state.winsB
                     /\ out.rounds = <<>>
                ELSE IF tb >= 150 /\ tb > ta
                THEN /\ out.winsB = state.winsB + 1
                     /\ out.winsA = state.winsA
                     /\ out.rounds = <<>>
                ELSE /\ out.winsA = state.winsA
                     /\ out.winsB = state.winsB
                     /\ out.rounds = appended

\* a win of team B has just been recorded next to an earlier win of team A
C1_Witness == JustWon /\ state.winsA = 1 /\ state.winsB = 1

(* C2: addRound doubles the round exactly when the ledger is empty and      *)
(* doubleFirstHand is set at the moment of the submission: a committed      *)
(* round is the expected one (applied = 2 * raw and isDouble, or applied =  *)
(* raw and not isDouble), and a win is decided on the expected round.       *)
C2_DoubleIffFirstAndFlag ==
    \A a \in RoundTexts, b \in RoundTexts, now \in Times :
        ValidRound(a, b) =>
            LET out == addRound(state, error, a, b, now).state
                appended == Append(state.rounds, ExpectedRound(state, a, b, now))
                ta == LedgerSum(appended, "a")
                tb == LedgerSum(appended, "b")
                won == (ta >= 150 /\ ta > tb) \/ (tb >= 150 /\ tb > ta)
            IN  /\ won <=> out.rounds = <<>>
                /\ ~won => out.rounds = appended

\* in a match after a recorded win, a doubled first round is followed by a
\* second round that is not doubled
C2_Witness ==
    /\ lastOp = "addRound"
    /\ error = NoError
    /\ state.winsA + state.winsB >= 1
    /\ Len(state.rounds) = 2
    /\ state.rounds[1].isDouble /\ state.rounds[1].appliedA = 2 * state.rounds[1].rawA
    /\ ~state.rounds[2].isDouble /\ state.rounds[2].appliedA = state.rounds[2].rawA
    /\ state.doubleFirstHand

(* C3: in every reachable state, addRound on an input where a value is      *)
(* negative or not an integer (which only a direct call can give it), or    *)
(* where both values are zero (an empty field being zero), reports an error *)
(* and changes nothing: it does not call setState, so ledger, win counters, *)
(* configuration and onboarding flag stay as they were.                     *)
C3_InvalidRoundRejected ==
    \A a \in RoundTexts \cup DirectCallTexts, b \in RoundTexts \cup DirectCallTexts,
       now \in Times :
        (\/ a \in NegativeTexts \cup NotIntegerTexts
         \/ b \in NegativeTexts \cup NotIntegerTexts
         \/ (a \in ZeroTexts /\ b \in ZeroTexts)) =>
            LET out == addRound(state, error, a, b, now)
            IN  /\ out.error # NoError
                /\ out.state = state
                /\ ~out.set

\* an all-zero round was just refused in the middle of a match
C3_Witness ==
    /\ lastOp = "addRound"
    /\ error = ErrBothZero
    /\ Len(state.rounds) >= 1
    /\ storage = Persist(storage, state)

(* C4: undoRound on an empty ledger (its button is disabled there, only a   *)
(* direct call reaches it) leaves it empty; a step of undoRound on a ledger *)
(* of N >= 1 rounds leaves exactly the first N - 1 rounds, in order, each   *)
(* with every field (id, raw, applied, isDouble) as it was.                 *)
C4_UndoRemovesLast ==
    [][/\ state.rounds = <<>> => undoRound(state, error).state.rounds = <<>>
       /\ lastOp' = "undoRound" =>
              /\ Len(state'.rounds) = Len(state.rounds) - 1
              /\ \A i \in 1..Len(state'.rounds) : state'.rounds[i] = state.rounds[i]]_vars

\* an undo has just taken a ledger of two rounds back to its doubled first round
C4_Witness ==
    /\ lastOp = "undoRound"
    /\ Len(state.rounds) = 1
    /\ state.rounds[1].isDouble
    /\ state.rounds[1].appliedA = 150

(* C5: undoRound never changes winsA, winsB, the team names, doubleFirstHand *)
(* or the onboarding flag; called on the empty ledger a win leaves behind,  *)
(* it takes back no win and restores no round.                              *)
C5_UndoKeepsWinsAndConfig ==
    [][/\ undoRound(state, error).state =
              [state EXCEPT !.rounds = undoRound(state, error).state.rounds]
       /\ state.rounds = <<>> => undoRound(state, error).state = state
       /\ lastOp' = "undoRound" =>
              /\ state'.winsA = state.winsA
              /\ state'.winsB = state.winsB
              /\ state'.teamAName = state.teamAName
              /\ state'.teamBName = state.teamBName
              /\ state'.doubleFirstHand = state.doubleFirstHand
              /\ state'.onboardingDone = state.onboardingDone]_vars

\* an undo has just emptied the ledger, with a win recorded for each team
C5_Witness ==
    /\ lastOp = "undoRound"
    /\ state.rounds = <<>>
    /\ state.winsA = 1
    /\ state.winsB = 1

(* C6: resetCurrentGame, in every state, empties the ledger and leaves      *)
(* winsA, winsB, teamAName, teamBName, doubleFirstHand and the onboarding   *)
(* flag as they were.                                                       *)
C6_ResetClearsLedgerOnly ==
    [][lastOp' = "resetCurrentGame" =>
          /\ state'.rounds = <<>>
          /\ state'.winsA = state.winsA
          /\ state'.winsB = state.winsB
          /\ state'.teamAName = state.teamAName
          /\ state'.teamBName = state.teamBName
          /\ state'.doubleFirstHand = state.doubleFirstHand
          /\ state'.onboardingDone = state.onboardingDone]_vars

\* a reset with wins recorded and the rule set
C6_Witness ==
    /\ lastOp = "resetCurrentGame"
    /\ state.rounds = <<>>
    /\ state.winsA + state.winsB = 2
    /\ state.doubleFirstHand
    /\ state.teamAName = Azules

\* a team name as the comparison reads it: trimmed, in lower case
NameKey(text) ==
    IF text \in {<<>>, <<" ", " ">>} THEN ""
    ELSE IF text \in {Rojos, rojos} THEN "rojos"
    ELSE "azules"

(* C7: saveOnboarding and saveSettings both report an error and change      *)
(* nothing (no setState) when a team name is empty after trimming, or when  *)
(* the two trimmed names are equal ignoring case ("Rojos" and "rojos").     *)
C7_InvalidNamesRejected ==
    \A a \in NameTexts, b \in NameTexts, d \in BOOLEAN :
        (NameKey(a) = "" \/ NameKey(b) = "" \/ NameKey(a) = NameKey(b)) =>
            LET o1 == saveOnboarding(state, error, a, b, d)
                o2 == saveSettings(state, error, a, b, d)
            IN  /\ o1.error # NoError /\ o1.state = state /\ ~o1.set
                /\ o2.error # NoError /\ o2.state = state /\ ~o2.set

\* names equal up to case were just refused by saveSettings in mid-match
C7_Witness ==
    /\ lastOp = "saveSettings"
    /\ error = ErrNamesEqual
    /\ state.rounds # <<>>

(* C8: a successful saveSettings leaves the onboarding flag, winsA, winsB   *)
(* and the ledger as they were; in particular no round already in the       *)
(* ledger has its appliedA, appliedB or isDouble changed by a new value of  *)
(* doubleFirstHand.                                                         *)
C8_SettingsFrame ==
    [][(lastOp' = "saveSettings" /\ error' = NoError) =>
          /\ state'.onboardingDone = state.onboardingDone
          /\ state'.winsA = state.winsA
          /\ state'.winsB = state.winsB
          /\ state'.rounds = state.rounds]_vars

\* the rule is off after a save made while the ledger holds a doubled round
C8_Witness ==
    /\ lastOp = "saveSettings"
    /\ error = NoError
    /\ ~state.doubleFirstHand
    /\ state.rounds # <<>>
    /\ state.rounds[1].isDouble
    /\ state.rounds[1].appliedB = 2 * state.rounds[1].rawB

\* the sums of the applied points over the ledger of s
LedgerSums(s) == [a |-> LedgerSum(s.rounds, "a"), b |-> LedgerSum(s.rounds, "b")]

(* C9: before and after every step the displayed totals are the sums of     *)
(* appliedA and of appliedB over the current ledger, and they are (0, 0)    *)
(* right after a recorded win and right after a reset.                      *)
C9_TotalsOfCurrentLedger ==
    [][/\ totals = LedgerSums(state)
       /\ totals' = LedgerSums(state')
       /\ (\/ lastOp' = "resetCurrentGame"
           \/ (lastOp' = "addRound"
               /\ state'.winsA + state'.winsB > state.winsA + state.winsB))
          => totals' = [a |-> 0, b |-> 0]]_vars

\* a win was just recorded and the totals are back to zero
C9_Witness ==
    /\ JustWon
    /\ state.winsA + state.winsB >= 1
    /\ totals = [a |-> 0, b |-> 0]

(* C10: for every reachable state s, importing the document exportData      *)
(* makes of s is accepted and sets a state equal to s in every field,       *)
(* whatever the state the import finds.                                     *)
C10_ExportImportRoundTrip ==
    \A prior \in {defaultState, state} :
        LET out == importData(prior, error, exportData(state))
        IN  /\ out.set
            /\ out.error = NoError
            /\ out.state = state

-----------------------------------------------------------------------------
\* the documents importData must reject, and the message each one is owed
RejectedDocs == {Unparsable, TextOf(JNull), DocMissingField, DocWrongType}

RejectionOf(doc) == IF doc = Unparsable THEN ErrBackupRead ELSE ErrBackupFormat

\* the states whose backups are offered to importData
AcceptedBackups == {BackupMidMatch, BackupNoOnboarding, BackupNewMatch}

(* C11: an import of a document that cannot be parsed or that fails the     *)
(* shape check does not call setState and sets the message owed to the      *)
(* document: the step in which the read of such a file answers leaves the   *)
(* state and the storage as they were and makes only that message wait for  *)
(* the render, and a render of updates among which no setState is leaves    *)
(* the state as it was, writes nothing but that state to the slot and       *)
(* leaves no persist effect waiting.                                        *)
C11_RejectedImportKeepsState ==
    [][/\ \A doc \in RejectedDocs :
              importData(state, error, doc) = Kept(state, RejectionOf(doc))
       /\ (lastOp' = "importData" /\ queued'.error # NoError)
              => /\ state' = state
                 /\ storage' = storage
                 /\ queued'.error \in {ErrBackupRead, ErrBackupFormat}
                 /\ queued' = Queue(QState, queued'.error, queued.set, queued.rebased)
       /\ (lastOp' = "render" /\ ~queued.set)
              => /\ state' = state
                 /\ error' = queued.error
                 /\ storage' \in {storage, Persist(storage, state)}
                 /\ ~effect']_vars

\* a document was rejected for its shape in the middle of a match with a
\* recorded win, and the message has been rendered
C11_Witness ==
    /\ lastOp = "render"
    /\ error = ErrBackupFormat
    /\ state.rounds # <<>>
    /\ state.winsA = 1
    /\ storage[STORAGE_KEY] = Stored(Stringify(state))

(* C12: an accepted import sets the state to the state of the document,     *)
(* whatever the state it finds, and nothing of the prior state remains: the *)
(* step in which the read of an accepted file answers makes the whole       *)
(* document wait for the render, the render sets the state to what waits,   *)
(* and the persist effect of that render writes the state to the slot.      *)
C12_ImportReplacesState ==
    [][/\ \A backup \in AcceptedBackups :
              importData(state, error, Stringify(backup)) = Set(backup, NoError)
       /\ (lastOp' = "importData" /\ queued'.error = NoError)
              => queued'.state \in AcceptedBackups /\ queued'.set
       /\ (lastOp' = "render" /\ queued.set)
              => state' = queued.state /\ effect'
       /\ lastOp' = "persist"
              => storage'[STORAGE_KEY] = Stored(TextOf(StateToJSON(state')))]_vars

\* a backup taken before the onboarding was imported from the board, a
\* handler having run while the file was read: the state is the document,
\* onboarding flag included, and the persist effect has written it
C12_Witness ==
    /\ lastOp = "persist"
    /\ overlapped
    /\ pending = 0
    /\ state = BackupNoOnboarding
    /\ storage[STORAGE_KEY] = Stored(Stringify(BackupNoOnboarding))

-----------------------------------------------------------------------------
\* the properties of a Round
RoundFields == {"id", "rawA", "rawB", "appliedA", "appliedB", "isDouble"}

(* C13: the shape check covers the elements of the ledger: a document whose *)
(* rounds array holds an element without a property of a Round is rejected  *)
(* by importData with the format message and is replaced by the default     *)
(* state by loadInitialState, so that every round of every state has all    *)
(* the properties of a Round.                                               *)
C13_ShapeCheckCoversRounds ==
    /\ \A i \in 1..Len(state.rounds) : DOMAIN state.rounds[i] = RoundFields
    /\ importData(state, error, DocRoundLacksField) = Kept(state, ErrBackupFormat)
    /\ loadInitialState(StorageWith(Stored(DocRoundLacksField))) = defaultState

(* C14: on a localStorage that answers, loadInitialState returns the        *)
(* default state when the slot was never written, when its text cannot be   *)
(* parsed and when the parsed value fails isValidState, and returns the     *)
(* stored state when the value passes; the state after construction is the  *)
(* one it returned.                                                         *)
C14_LoadReturnsStoredOrDefault ==
    /\ \A slot \in {Absent} \cup {Stored(doc) : doc \in RejectedDocs} :
           loadInitialState(StorageWith(slot)) = defaultState
    /\ \A backup \in AcceptedBackups :
           loadInitialState(StorageWith(Stored(TextOf(StateToJSON(backup))))) = backup
    /\ lastOp = "init"
          => state \in {defaultState, BackupMidMatch, BackupNoOnboarding} /\ ~crashed

\* the page was opened on a slot that held a backup, and shows its state
C14_Witness ==
    /\ lastOp = "init"
    /\ state = BackupMidMatch
    /\ state.rounds # <<>>

(* C15: after every completed operation that sets the state (a handler of   *)
(* the two screens, the render of an import, the run of the persist         *)
(* effect) the slot holds the text of the whole state in memory, and a load *)
(* of the storage at that point returns a state equal to the state in       *)
(* memory.                                                                  *)
C15_SlotHoldsState ==
    lastOp \in HandlerOps \cup {"render", "persist"} =>
        /\ storage[STORAGE_KEY] = Stored(TextOf(StateToJSON(state)))
        /\ loadInitialState(storage) = state

\* the sum of the two win counters
Wins(s) == s.winsA + s.winsB

(* C16, as the spec states it: a step takes a ledger that is not empty to   *)
(* the empty ledger only if it is a reset or an addRound that records a     *)
(* win.                                                                     *)
C16_EmptiedOnlyByWinOrReset ==
    [][(state.rounds # <<>> /\ state'.rounds = <<>>)
          => \/ lastOp' = "resetCurrentGame"
             \/ lastOp' = "addRound" /\ Wins(state') = Wins(state) + 1]_vars

(* C16, amended: a step takes a ledger that is not empty to the empty       *)
(* ledger only if it is a reset, an addRound that records a win, an undo of *)
(* a ledger of one round, or the render of updates among which the setState *)
(* of an import is; a reset and a recorded win always leave the ledger      *)
(* empty, and saveOnboarding and saveSettings never change the ledger.      *)
C16_EmptiedOnlyByWinResetUndoImport ==
    [][/\ (state.rounds # <<>> /\ state'.rounds = <<>>)
          => \/ lastOp' = "resetCurrentGame"
             \/ lastOp' = "addRound" /\ Wins(state') = Wins(state) + 1
             \/ lastOp' = "undoRound" /\ Len(state.rounds) = 1
             \/ lastOp' = "render" /\ queued.set
       /\ (\/ lastOp' = "resetCurrentGame"
           \/ lastOp' = "addRound" /\ Wins(state') = Wins(state) + 1)
          => state'.rounds = <<>>
       /\ lastOp' \in {"saveOnboarding", "saveSettings"}
          => state'.rounds = state.rounds]_vars

\* the onboarding was just finished over a ledger that an import had brought,
\* and the ledger is still there
C16_Witness ==
    /\ lastOp = "saveOnboarding"
    /\ error = NoError
    /\ state.onboardingDone
    /\ state.rounds = BackupNoOnboarding.rounds

(* C17: a localStorage that throws, on the read at construction or on a     *)
(* write of the persist effect, never takes the App down.                   *)
C17_StorageFailureNonFatal == ~crashed

(* C18: in every reachable state whose onboarding is done, the two team     *)
(* names are not empty and differ once trimmed and put in lower case.       *)
C18_NamesValidOnceOnboarded ==
    state.onboardingDone =>
        /\ NameKey(state.teamAName) # ""
        /\ NameKey(state.teamBName) # ""
        /\ NameKey(state.teamAName) # NameKey(state.teamBName)

(* C19: the state is kept under the key 'dominoes-score-tracker-v2': in     *)
(* every reachable state the slot of that key holds the text of the state,  *)
(* and a load reads the state back from that key.                           *)
C19_StateKeptUnderReadmeKey ==
    /\ storage[README_STORAGE_KEY] = Stored(TextOf(StateToJSON(state)))
    /\ loadInitialState_ReadsReadmeKey(storage) = state

(* C20: in every reachable state and for every valid round input, the win   *)
(* conditions of the two teams on the totals after the round are not both   *)
(* true, addRound adds at most 1 to at most one win counter and takes none  *)
(* down, and when the totals after the round are equal and at least 150 it  *)
(* records no win and commits the round.                                    *)
C20_AtMostOneWinner ==
    \A a \in RoundTexts, b \in RoundTexts, now \in Times :
        ValidRound(a, b) =>
            LET out == addRound(state, error, a, b, now).state
                appended == Append(state.rounds, ExpectedRound(state, a, b, now))
                ta == LedgerSum(appended, "a")
                tb == LedgerSum(appended, "b")
                gainA == out.winsA - state.winsA
                gainB == out.winsB - state.winsB
            IN  /\ ~(AWon([a |-> ta, b |-> tb]) /\ BWon([a |-> ta, b |-> tb]))
                /\ <<gainA, gainB>> \in {<<0, 0>>, <<1, 0>>, <<0, 1>>}
                /\ (ta = tb /\ ta >= 150)
                      => gainA = 0 /\ gainB = 0 /\ out.rounds = appended

\* a round was just committed that leaves both totals at 150
C20_Witness ==
    /\ lastOp = "addRound"
    /\ error = NoError
    /\ state.rounds # <<>>
    /\ LedgerSum(state.rounds, "a") = LedgerSum(state.rounds, "b")
    /\ LedgerSum(state.rounds, "a") >= 150

-----------------------------------------------------------------------------
\* a team's total is at least 150 and strictly above the other's
WinsOn(rounds) ==
    LET ta == LedgerSum(rounds, "a")
        tb == LedgerSum(rounds, "b")
    IN  (ta >= 150 /\ ta > tb) \/ (tb >= 150 /\ tb > ta)

(* C22: in every state reachable from the default state without an import, *)
(* neither team has won on the committed ledger, nor on any prefix of it    *)
(* (the ledgers that undo leads back to).                                   *)
C22_CommittedLedgerHasNoWinner ==
    \A n \in 0..Len(state.rounds) : ~WinsOn(SubSeq(state.rounds, 1, n))

\* the second round of a match was undone and the ledger left is a tie at 150
C22_Witness ==
    /\ lastOp = "undoRound"
    /\ Len(state.rounds) = 1
    /\ LedgerSum(state.rounds, "a") >= 150
    /\ LedgerSum(state.rounds, "b") >= 150

(* C23: in every state reachable without an import, every round of the     *)
(* ledger has raw values that are non-negative integers and not both zero,  *)
(* has applied values twice the raw ones when isDouble and equal to them    *)
(* otherwise, and is not doubled unless it is the first of the ledger.      *)
C23_RoundsWellFormed ==
    \A i \in 1..Len(state.rounds) :
        LET r == state.rounds[i]
        IN  /\ r.rawA \in Nat /\ r.rawB \in Nat
            /\ ~(r.rawA = 0 /\ r.rawB = 0)
            /\ r.appliedA = (IF r.isDouble THEN 2 * r.rawA ELSE r.rawA)
            /\ r.appliedB = (IF r.isDouble THEN 2 * r.rawB ELSE r.rawB)
            /\ r.isDouble => i = 1

\* the rule was switched off after a doubled first hand, and a second round
\* was committed after it
C23_Witness ==
    /\ lastOp = "addRound"
    /\ error = NoError
    /\ ~state.doubleFirstHand
    /\ Len(state.rounds) = 2
    /\ state.rounds[1].isDouble
    /\ state.rounds[1].appliedB = 150
    /\ ~state.rounds[2].isDouble

(* C24: along every behaviour without an import the two win counters are   *)
(* natural numbers, no step takes either down, a step adds at most 1 to     *)
(* their sum, and the sum grows only in a step of addRound that leaves the  *)
(* ledger empty.                                                            *)
C24_WinsOnlyGrowByWins ==
    [][/\ state.winsA \in Nat /\ state.winsB \in Nat
       /\ state'.winsA \in Nat /\ state'.winsB \in Nat
       /\ state'.winsA >= state.winsA
       /\ state'.winsB >= state.winsB
       /\ Wins(state') <= Wins(state) + 1
       /\ Wins(state') > Wins(state)
             => lastOp' = "addRound" /\ state'.rounds = <<>>]_vars

\* a second win was just recorded, with the doubling rule on
C24_Witness ==
    /\ lastOp = "addRound"
    /\ error = NoError
    /\ state.rounds = <<>>
    /\ Wins(state) = 2
    /\ state.doubleFirstHand

-----------------------------------------------------------------------------
(* C21: a step that takes importData to its await changes nothing; a        *)
(* handler that runs while the file is read leaves the import reading and   *)
(* nothing of the import waiting; the step in which the read answers, with  *)
(* nothing else waiting, leaves the state as the handlers made it and makes *)
(* wait either a document of the file, whole, or that same state with the   *)
(* message of the rejection; and the render that follows the answer sets    *)
(* the state to the whole document when the file was accepted and leaves    *)
(* the state of the handlers when no setState waited.                       *)
C21_ImportAppliedWhole ==
    [][/\ lastOp' = ImportAwaits
          => state' = state /\ error' = error /\ storage' = storage /\ queued' = queued
       /\ (pending > 0 /\ lastOp' \in HandlerOps)
          => pending' = pending /\ (~queued.any => ~queued'.any)
       /\ (lastOp' = "importData" /\ ~queued.any)
          => /\ state' = state /\ error' = error /\ storage' = storage
             /\ \/ \E backup \in AcceptedBackups :
                       queued' = Queue(backup, NoError, TRUE, FALSE)
                \/ \E message \in {ErrBackupRead, ErrBackupFormat} :
                       queued' = Queue(state, message, FALSE, FALSE)
       /\ (lastOp = "importData" /\ lastOp' = "render" /\ queued.error = NoError)
          => state' \in AcceptedBackups /\ state' = queued.state
       /\ (lastOp = "importData" /\ lastOp' = "render" /\ ~queued.set)
          => state' = state /\ error' = queued.error]_vars

\* the mid-match backup was imported and rendered, a handler having run
\* while its file was read: the state is the document
C21_Witness ==
    /\ lastOp = "render"
    /\ overlapped
    /\ pending = 0
    /\ error = NoError
    /\ state = BackupMidMatch
    /\ effect

====
